---- MODULE Spec2Model ----
(***************************************************************************)
(* Model of smart_study_notes_streamlit.py: the paragraph chunker          *)
(* (chunk_text), the key-term post-processing of generate_key_terms, the   *)
(* three generation operations (summarize_chunks, generate_key_terms,      *)
(* generate_quiz) and the request flow of main.                            *)
(*                                                                         *)
(* Strings are sequences of one-character strings.                         *)
(***************************************************************************)
EXTENDS Integers, Sequences, FiniteSets, TLC

VARIABLES
    \* ---- chunk_text(text, max_chars) applied to an input
    text, max_chars, chunks, chunk_pc,
    \* ---- key-term post-processing applied to a model response
    response, key_terms, terms_pc,
    \* ---- process-level state read by the generation operations
    env_key, openai_installed, openai_api_key,
    \* ---- the generation operation in progress
    op, api_key, n_chunks, op_pc, i, summaries, op_error,
    \* ---- the inference client as a test double sees it: calls made, calls that raised
    calls, failed,
    \* ---- one script run of main
    pc, ui_api_key, rendered, error, download, requests

chunk_vars == <<text, max_chars, chunks, chunk_pc>>
terms_vars == <<response, key_terms, terms_pc>>
proc_vars  == <<env_key, openai_installed>>
op_vars    == <<openai_api_key, op, api_key, n_chunks, op_pc, i, summaries, op_error, calls, failed>>
main_vars  == <<pc, ui_api_key, rendered, error, download, requests>>
vars == <<chunk_vars, terms_vars, proc_vars, op_vars, main_vars>>

---------------------------------------------------------------------------
(* Bounds of the model *)

MaxTextLen == 7
\* max_chars ranges over -BelowZero..MaxMaxChars
BelowZero == 1
MaxMaxChars == 9
\* model responses: every string up to MaxRespLen, and lists of up to MaxItems items
MaxRespLen == 4
MaxItems == 22
\* chunks handed to summarize_chunks, script runs of main
MaxChunks == 3
MaxRequests == 2

---------------------------------------------------------------------------
(* Python string primitives *)

NL == "\n"
SP == " "

\* the blank-line separator "\n\n"
Sep == <<NL, NL>>

\* str.strip() with no argument strips whitespace
IsSpace(c) == c \in {SP, NL}

RECURSIVE LStrip(_)
LStrip(s) ==
    IF s = <<>> THEN <<>>
    ELSE IF IsSpace(Head(s)) THEN LStrip(Tail(s))
    ELSE s

RECURSIVE RStrip(_)
RStrip(s) ==
    IF s = <<>> THEN <<>>
    ELSE IF IsSpace(s[Len(s)]) THEN RStrip(SubSeq(s, 1, Len(s) - 1))
    ELSE s

Strip(s) == RStrip(LStrip(s))

\* str.find(sep) + 1: the leftmost position where sep occurs in s, 0 when none
Find(s, sep) ==
    LET hits == {k \in 1..(Len(s) - Len(sep) + 1) : SubSeq(s, k, k + Len(sep) - 1) = sep}
    IN  IF hits = {} THEN 0 ELSE CHOOSE k \in hits : \A j \in hits : k <= j

\* str.split(sep): leftmost non-overlapping occurrences of sep, empty pieces kept
RECURSIVE Split(_, _)
Split(s, sep) ==
    LET k == Find(s, sep)
    IN  IF k = 0 THEN <<s>>
        ELSE <<SubSeq(s, 1, k - 1)>> \o Split(SubSeq(s, k + Len(sep), Len(s)), sep)

\* sep.join(items)
RECURSIVE Join(_, _)
Join(items, sep) ==
    IF items = <<>> THEN <<>>
    ELSE IF Len(items) = 1 THEN items[1]
    ELSE items[1] \o sep \o Join(Tail(items), sep)

---------------------------------------------------------------------------
(* chunk_text *)

\* faulty variant of IsBlank: `if not p` (no strip)
IsBlankNoStrip(p) == p = <<>>

\* `if not p.strip(): continue`
IsBlank(p) == Strip(p) = <<>>

\* faulty variant of ExceedsLimit: `if current_len > max_chars`
ExceedsLimitBefore(current_len, p, mc) == current_len > mc

\* faulty variant of ExceedsLimit: `>=` for `>`
ExceedsLimitStrict(current_len, p, mc) == current_len + Len(p) + 2 >= mc

\* `if current_len + len(p) + 2 > max_chars`
ExceedsLimit(current_len, p, mc) == current_len + Len(p) + 2 > mc

\* the state before the loop: chunks = [], current = [], current_len = 0
LoopInit == [chunks |-> <<>>, current |-> <<>>, current_len |-> 0]

\* one iteration of `for p in paragraphs`
LoopBody(st, p, mc) ==
    IF IsBlank(p) THEN st
    ELSE IF ExceedsLimit(st.current_len, p, mc)
         THEN [chunks      |-> Append(st.chunks, Join(st.current, Sep)),
               current     |-> <<p>>,
               current_len |-> Len(p)]
         ELSE [chunks      |-> st.chunks,
               current     |-> Append(st.current, p),
               current_len |-> st.current_len + Len(p) + 2]

RECURSIVE Loop(_, _, _)
Loop(st, paragraphs, mc) ==
    IF paragraphs = <<>> THEN st
    ELSE Loop(LoopBody(st, Head(paragraphs), mc), Tail(paragraphs), mc)

chunk_text(t, mc) ==
    LET st == Loop(LoopInit, Split(t, Sep), mc)
    IN  IF st.current # <<>>
        THEN Append(st.chunks, Join(st.current, Sep))
        ELSE st.chunks

---------------------------------------------------------------------------
(* Inputs of chunk_text *)

TextAlphabet == {"a", SP, NL}

SeqsUpTo(S, n) == UNION {[1..k -> S] : k \in 0..n}

Range(f) == {f[k] : k \in DOMAIN f}

Texts == SeqsUpTo(TextAlphabet, MaxTextLen)

MaxCharsValues == (0 - BelowZero)..MaxMaxChars

---------------------------------------------------------------------------
(* Key-term post-processing of generate_key_terms *)

COMMA == ","

\* str.replace(old, new) for one-character old and new
Replace(s, old, new) == [k \in 1..Len(s) |-> IF s[k] = old THEN new ELSE s[k]]

RECURSIVE StripEach(_)
StripEach(items) ==
    IF items = <<>> THEN <<>>
    ELSE <<Strip(Head(items))>> \o StripEach(Tail(items))

\* items[:n]
FirstN(items, n) == SubSeq(items, 1, IF Len(items) < n THEN Len(items) ELSE n)

\* `return items[:20]`
KeyTermLimit == 20

\* faulty variant of KeyTermsPost: the replace("\n", ",") left out
KeyTermsPostNoReplace(content) ==
    LET out   == Strip(content)
        parts == Split(out, <<COMMA>>)
        items == StripEach(SelectSeq(parts, LAMBDA p : ~IsBlank(p)))
    IN  FirstN(items, KeyTermLimit)

\* out = content.strip()
\* items = [i.strip() for i in out.replace("\n", ",").split(",") if i.strip()]
\* return items[:20]
KeyTermsPost(content) ==
    LET out   == Strip(content)
        parts == Split(Replace(out, NL, COMMA), <<COMMA>>)
        items == StripEach(SelectSeq(parts, LAMBDA p : ~IsBlank(p)))
    IN  FirstN(items, KeyTermLimit)

---------------------------------------------------------------------------
(* Inputs of the key-term post-processing: model responses *)

RespAlphabet == {"a", SP, COMMA, NL}

\* the response "a, b,\nc"
ExampleResponse == <<"a", COMMA, SP, "b", COMMA, NL, "c">>

\* the k-th term of a generated list: a, bb, ccc, a, bb, ccc, ...
Term(k) ==
    CASE k % 3 = 1 -> <<"a">>
      [] k % 3 = 2 -> <<"b", "b">>
      [] OTHER     -> <<"c", "c", "c">>

ListStyles == {"commas", "lines", "mixed", "padded", "gaps"}

\* what follows the k-th term in a list of the given style
Delim(style, k) ==
    CASE style = "commas" -> <<COMMA>>
      [] style = "lines"  -> <<NL>>
      [] style = "mixed"  -> IF k % 2 = 1 THEN <<COMMA, SP>> ELSE <<COMMA, NL>>
      [] style = "padded" -> <<SP, COMMA, SP, SP>>
      [] OTHER            -> IF k % 2 = 1 THEN <<COMMA, COMMA>> ELSE <<NL, SP, NL>>

RECURSIVE TermList(_, _, _)
TermList(style, k, n) ==
    IF k > n THEN <<>>
    ELSE Term(k) \o Delim(style, k) \o TermList(style, k + 1, n)

Responses ==
    SeqsUpTo(RespAlphabet, MaxRespLen)
        \cup {ExampleResponse}
        \cup {TermList(style, 1, n) : style \in ListStyles, n \in 1..MaxItems}
        \cup {<<SP, NL>> \o TermList(style, 1, n) \o Term(n + 1) \o <<NL>> :
                style \in ListStyles, n \in 1..MaxItems}

---------------------------------------------------------------------------
(* The generation operations *)

\* Python None
NoneVal == "None"

\* truthiness of an optional string
Falsy(v) == v \in {NoneVal, ""}

\* `a or b`
PyOr(a, b) == IF Falsy(a) THEN b ELSE a

CallKinds == {"chunk", "combine", "key_terms", "quiz"}

NoCalls == [k \in CallKinds |-> 0]

Bump(f, k) == [f EXCEPT ![k] = @ + 1]

TotalCalls == calls["chunk"] + calls["combine"] + calls["key_terms"] + calls["quiz"]

TotalFailed == failed["chunk"] + failed["combine"] + failed["key_terms"] + failed["quiz"]

\* openai.ChatCompletion.create(...): one blocking round trip that returns or raises
ModelCall(kind, ok) ==
    /\ calls' = Bump(calls, kind)
    /\ failed' = IF ok THEN failed ELSE Bump(failed, kind)

\* faulty variant of KeyMissing: the check left out
KeyMissingNever(k) == FALSE

\* `if not openai.api_key: raise RuntimeError(...)`
KeyMissing(k) == Falsy(k)

Raise(err) ==
    /\ op_pc' = "raised"
    /\ op_error' = err

\* summarize_chunks up to its loop: ensure_openai(), key resolution, key check
SummarizeEnter(key, n) ==
    /\ op' = "summarize_chunks"
    /\ api_key' = key
    /\ n_chunks' = n
    /\ i' = 0
    /\ summaries' = 0
    /\ UNCHANGED <<calls, failed>>
    /\ IF ~openai_installed
       THEN Raise("openai_missing") /\ UNCHANGED openai_api_key
       ELSE /\ openai_api_key' = PyOr(key, env_key)
            /\ IF KeyMissing(openai_api_key')
               THEN Raise("no_api_key")
               ELSE op_pc' = "loop" /\ op_error' = "none"

\* faulty variant of ChunkCall: a failed call is caught and the loop goes on
ChunkCallSwallow(ok) ==
    /\ op = "summarize_chunks"
    /\ op_pc = "loop"
    /\ i < n_chunks
    /\ ModelCall("chunk", ok)
    /\ i' = i + 1
    /\ summaries' = IF ok THEN summaries + 1 ELSE summaries
    /\ UNCHANGED <<op_pc, op_error>>
    /\ UNCHANGED <<openai_api_key, op, api_key, n_chunks>>

\* one iteration of `for i, c in enumerate(chunks)`
ChunkCall(ok) ==
    /\ op = "summarize_chunks"
    /\ op_pc = "loop"
    /\ i < n_chunks
    /\ ModelCall("chunk", ok)
    /\ IF ok
       THEN i' = i + 1 /\ summaries' = summaries + 1 /\ UNCHANGED <<op_pc, op_error>>
       ELSE Raise("model_call_failed") /\ UNCHANGED <<i, summaries>>
    /\ UNCHANGED <<openai_api_key, op, api_key, n_chunks>>

\* the final combination call, after the loop
CombineCall(ok) ==
    /\ op = "summarize_chunks"
    /\ op_pc = "loop"
    /\ i = n_chunks
    /\ ModelCall("combine", ok)
    /\ IF ok
       THEN op_pc' = "returned" /\ op_error' = "none"
       ELSE Raise("model_call_failed")
    /\ UNCHANGED <<openai_api_key, op, api_key, n_chunks, i, summaries>>

\* generate_key_terms / generate_quiz up to the model call: ensure_openai(), key
\* resolution, and no key check
SingleCallEnter(name, key) ==
    /\ op' = name
    /\ api_key' = key
    /\ UNCHANGED <<n_chunks, i, summaries, calls, failed>>
    /\ IF ~openai_installed
       THEN Raise("openai_missing") /\ UNCHANGED openai_api_key
       ELSE /\ openai_api_key' = PyOr(key, env_key)
            /\ op_pc' = "call"
            /\ op_error' = "none"

KeyTermsEnter(key) == SingleCallEnter("generate_key_terms", key)

QuizEnter(key) == SingleCallEnter("generate_quiz", key)

SingleCall(name, kind, ok) ==
    /\ op = name
    /\ op_pc = "call"
    /\ ModelCall(kind, ok)
    /\ IF ok
       THEN op_pc' = "returned" /\ op_error' = "none"
       ELSE Raise("model_call_failed")
    /\ UNCHANGED <<openai_api_key, op, api_key, n_chunks, i, summaries>>

KeyTermsCall(ok) == SingleCall("generate_key_terms", "key_terms", ok)

QuizCall(ok) == SingleCall("generate_quiz", "quiz", ok)

---------------------------------------------------------------------------
(* Inputs of the generation operations *)

\* os.environ.get("OPENAI_API_KEY"): absent, set but empty, set
EnvValues == {NoneVal, "", "sk-env"}

\* the api_key argument: None (the default), empty, given
KeyArgs == {NoneVal, "", "sk-arg"}

\* st.text_input(...): the sidebar field, empty or filled
UiKeys == {"", "sk-ui"}

---------------------------------------------------------------------------
(* main: one script run per user interaction *)

FileKinds == {"pdf", "txt"}

\* extract_text_from_pdf raises when neither extractor is available and working;
\* read_text_file falls back to latin-1, which decodes any bytes
ExtractRaises(kind, plumber_ok, pypdf2_ok) ==
    kind = "pdf" /\ ~plumber_ok /\ ~pypdf2_ok

\* faulty variant of MainAfter: each step caught on its own, the run going on
MainAfterKeepGoing(next, out) ==
    /\ pc' = next
    /\ rendered' = IF op_pc' = "raised" THEN rendered ELSE rendered \cup out
    /\ error' = IF op_pc' = "raised" THEN "generate" ELSE error
    /\ UNCHANGED <<ui_api_key, download, requests>>

\* the try/except around the generation steps: an exception ends the run with
\* st.error, otherwise the output is rendered and the next step starts
MainAfter(next, out) ==
    /\ IF op_pc' = "raised"
       THEN pc' = "done" /\ error' = "generate" /\ rendered' = rendered
       ELSE pc' = next /\ error' = error /\ rendered' = rendered \cup out
    /\ UNCHANGED <<ui_api_key, download, requests>>

\* `uploaded is None`: st.info
MainNoFile ==
    /\ pc = "start"
    /\ rendered' = rendered \cup {"info"}
    /\ pc' = "done"
    /\ UNCHANGED <<ui_api_key, error, download, requests>>
    /\ UNCHANGED <<chunk_vars, terms_vars, proc_vars, op_vars>>

\* text extraction, st.success, and the state of the button
MainExtract(kind, plumber_ok, pypdf2_ok, clicked) ==
    /\ pc = "start"
    /\ IF ExtractRaises(kind, plumber_ok, pypdf2_ok)
       THEN error' = "extract" /\ rendered' = rendered /\ pc' = "done"
       ELSE /\ error' = error
            /\ rendered' = rendered \cup {"extracted"}
            /\ pc' = IF clicked THEN "clicked" ELSE "done"
    /\ UNCHANGED <<ui_api_key, download, requests>>
    /\ UNCHANGED <<chunk_vars, terms_vars, proc_vars, op_vars>>

\* chunks = chunk_text(text, max_chars=3800); summarize_chunks(chunks, ...) entered
MainSummarizeEnter(n) ==
    /\ pc = "clicked"
    /\ SummarizeEnter(ui_api_key, n)
    /\ MainAfter("summarizing", {})
    /\ UNCHANGED <<chunk_vars, terms_vars, proc_vars>>

MainChunkCall(ok) ==
    /\ pc = "summarizing"
    /\ ChunkCall(ok)
    /\ MainAfter("summarizing", {})
    /\ UNCHANGED <<chunk_vars, terms_vars, proc_vars>>

MainCombineCall(ok) ==
    /\ pc = "summarizing"
    /\ CombineCall(ok)
    /\ MainAfter("key_terms", {"summary"})
    /\ UNCHANGED <<chunk_vars, terms_vars, proc_vars>>

MainKeyTermsEnter ==
    /\ pc = "key_terms"
    /\ KeyTermsEnter(ui_api_key)
    /\ MainAfter("key_terms_call", {})
    /\ UNCHANGED <<chunk_vars, terms_vars, proc_vars>>

MainKeyTermsCall(ok) ==
    /\ pc = "key_terms_call"
    /\ KeyTermsCall(ok)
    /\ MainAfter("quiz", {"key_terms"})
    /\ UNCHANGED <<chunk_vars, terms_vars, proc_vars>>

MainQuizEnter ==
    /\ pc = "quiz"
    /\ QuizEnter(ui_api_key)
    /\ MainAfter("quiz_call", {})
    /\ UNCHANGED <<chunk_vars, terms_vars, proc_vars>>

MainQuizCall(ok) ==
    /\ pc = "quiz_call"
    /\ QuizCall(ok)
    /\ MainAfter("export", {"quiz"})
    /\ UNCHANGED <<chunk_vars, terms_vars, proc_vars>>

\* st.header("Export") and st.download_button(...)
MainExport ==
    /\ pc = "export"
    /\ download' = TRUE
    /\ pc' = "done"
    /\ UNCHANGED <<ui_api_key, rendered, error, requests>>
    /\ UNCHANGED <<chunk_vars, terms_vars, proc_vars, op_vars>>

\* the next interaction reruns the script from the top; the openai module and its
\* api_key attribute stay loaded in the process
MainRerun(key) ==
    /\ pc = "done"
    /\ requests < MaxRequests
    /\ requests' = requests + 1
    /\ pc' = "start"
    /\ ui_api_key' = key
    /\ rendered' = {}
    /\ error' = "none"
    /\ download' = FALSE
    /\ op' = "none"
    /\ op_pc' = "idle"
    /\ op_error' = "none"
    /\ i' = 0
    /\ summaries' = 0
    /\ n_chunks' = 0
    /\ api_key' = NoneVal
    /\ calls' = NoCalls
    /\ failed' = NoCalls
    /\ UNCHANGED openai_api_key
    /\ UNCHANGED <<chunk_vars, terms_vars, proc_vars>>

---------------------------------------------------------------------------
(* Specifications *)

ChunkIdle ==
    /\ text = <<>>
    /\ max_chars = 0
    /\ chunks = <<>>
    /\ chunk_pc = "idle"

TermsIdle ==
    /\ response = <<>>
    /\ key_terms = <<>>
    /\ terms_pc = "idle"

OpIdle ==
    /\ openai_api_key = NoneVal
    /\ op = "none"
    /\ api_key = NoneVal
    /\ n_chunks = 0
    /\ op_pc = "idle"
    /\ i = 0
    /\ summaries = 0
    /\ op_error = "none"
    /\ calls = NoCalls
    /\ failed = NoCalls

ProcIdle ==
    /\ env_key = NoneVal
    /\ openai_installed = TRUE

MainIdle ==
    /\ pc = "none"
    /\ ui_api_key = ""
    /\ rendered = {}
    /\ error = "none"
    /\ download = FALSE
    /\ requests = 0

\* ---- chunk_text applied to every text and max_chars within the bounds
InitChunk ==
    /\ text \in Texts
    /\ max_chars \in MaxCharsValues
    /\ chunks = <<>>
    /\ chunk_pc = "input"
    /\ TermsIdle /\ ProcIdle /\ OpIdle /\ MainIdle

ApplyChunkText ==
    /\ chunk_pc = "input"
    /\ chunks' = chunk_text(text, max_chars)
    /\ chunk_pc' = "done"
    /\ UNCHANGED <<text, max_chars>>
    /\ UNCHANGED <<terms_vars, proc_vars, op_vars, main_vars>>

NextChunk == ApplyChunkText

SpecChunk == InitChunk /\ [][NextChunk]_vars

\* ---- the key-term post-processing applied to every response within the bounds
InitTerms ==
    /\ response \in Responses
    /\ key_terms = <<>>
    /\ terms_pc = "input"
    /\ ChunkIdle /\ ProcIdle /\ OpIdle /\ MainIdle

ApplyKeyTermsPost ==
    /\ terms_pc = "input"
    /\ key_terms' = KeyTermsPost(response)
    /\ terms_pc' = "done"
    /\ UNCHANGED response
    /\ UNCHANGED <<chunk_vars, proc_vars, op_vars, main_vars>>

NextTerms == ApplyKeyTermsPost

SpecTerms == InitTerms /\ [][NextTerms]_vars

\* ---- each generation operation called directly, its exceptions reaching the caller
InitOps ==
    /\ env_key \in EnvValues
    /\ openai_installed \in BOOLEAN
    /\ ChunkIdle /\ TermsIdle /\ OpIdle /\ MainIdle

Outside == UNCHANGED <<chunk_vars, terms_vars, proc_vars, main_vars>>

CallSummarize == \E key \in KeyArgs, n \in 0..MaxChunks :
    op_pc = "idle" /\ SummarizeEnter(key, n) /\ Outside

CallKeyTerms == \E key \in KeyArgs :
    op_pc = "idle" /\ KeyTermsEnter(key) /\ Outside

CallQuiz == \E key \in KeyArgs :
    op_pc = "idle" /\ QuizEnter(key) /\ Outside

StepChunk == \E ok \in BOOLEAN : ChunkCall(ok) /\ Outside

StepCombine == \E ok \in BOOLEAN : CombineCall(ok) /\ Outside

StepKeyTerms == \E ok \in BOOLEAN : KeyTermsCall(ok) /\ Outside

StepQuiz == \E ok \in BOOLEAN : QuizCall(ok) /\ Outside

NextOps ==
    \/ CallSummarize
    \/ CallKeyTerms
    \/ CallQuiz
    \/ StepChunk
    \/ StepCombine
    \/ StepKeyTerms
    \/ StepQuiz

SpecOps == InitOps /\ [][NextOps]_vars

\* ---- main, rerun on every interaction
InitMain ==
    /\ env_key \in EnvValues
    /\ openai_installed \in BOOLEAN
    /\ ChunkIdle /\ TermsIdle /\ OpIdle
    /\ pc = "start"
    /\ ui_api_key \in UiKeys
    /\ rendered = {}
    /\ error = "none"
    /\ download = FALSE
    /\ requests = 1

RunExtract == \E kind \in FileKinds, plumber_ok \in BOOLEAN, pypdf2_ok \in BOOLEAN,
                 clicked \in BOOLEAN :
    MainExtract(kind, plumber_ok, pypdf2_ok, clicked)

RunSummarizeEnter == \E n \in 0..MaxChunks : MainSummarizeEnter(n)

RunChunkCall == \E ok \in BOOLEAN : MainChunkCall(ok)

RunCombineCall == \E ok \in BOOLEAN : MainCombineCall(ok)

RunKeyTermsCall == \E ok \in BOOLEAN : MainKeyTermsCall(ok)

RunQuizCall == \E ok \in BOOLEAN : MainQuizCall(ok)

Rerun == \E key \in UiKeys : MainRerun(key)

NextMain ==
    \/ MainNoFile
    \/ RunExtract
    \/ RunSummarizeEnter
    \/ RunChunkCall
    \/ RunCombineCall
    \/ MainKeyTermsEnter
    \/ RunKeyTermsCall
    \/ MainQuizEnter
    \/ RunQuizCall
    \/ MainExport
    \/ Rerun

SpecMain == InitMain /\ [][NextMain]_vars

---------------------------------------------------------------------------
(* Properties of chunk_text, checked under SpecChunk *)

\* a string of whitespace only (the empty string included)
WhitespaceOnly(s) == \A k \in DOMAIN s : IsSpace(s[k])

\* the paragraphs of the text that are non-empty after trimming, in order
NonBlankParagraphs(t) == SelectSeq(Split(t, Sep), LAMBDA p : ~WhitespaceOnly(p))

\* the paragraphs of all chunks, in chunk order
RECURSIVE ChunkParagraphs(_)
ChunkParagraphs(cs) ==
    IF cs = <<>> THEN <<>>
    ELSE Split(Head(cs), Sep) \o ChunkParagraphs(Tail(cs))

\* C1: splitting every chunk on "\n\n" and concatenating the paragraphs in chunk
\* order gives exactly the non-blank paragraphs of the text, in their order.
C1_ParagraphsPreserved ==
    chunk_pc = "done" => ChunkParagraphs(chunks) = NonBlankParagraphs(text)

\* C2: for max_chars >= 1 every chunk is at most max_chars + 2 long, unless it is
\* one paragraph that is itself longer than max_chars; a chunk of two or more
\* paragraphs always respects the bound.
C2_ChunkLengthBound ==
    (chunk_pc = "done" /\ max_chars >= 1) =>
        \A k \in DOMAIN chunks :
            LET c  == chunks[k]
                ps == Split(c, Sep)
            IN  /\ \/ Len(c) <= max_chars + 2
                   \/ Len(ps) = 1 /\ ps[1] \in Range(NonBlankParagraphs(text))
                                  /\ Len(ps[1]) > max_chars
                /\ Len(ps) >= 2 => Len(c) <= max_chars + 2

\* a chunk of two paragraphs that fills max_chars exactly, after an earlier chunk
C2_Witness ==
    /\ chunk_pc = "done"
    /\ max_chars >= 1
    /\ Len(chunks) >= 2
    /\ \E k \in DOMAIN chunks :
          Len(Split(chunks[k], Sep)) >= 2 /\ Len(chunks[k]) = max_chars

\* C3: a text P "\n\n" Q with P longer than max_chars and Q within max_chars
\* gives exactly the two chunks P, Q.
C3_OversizedThenFitting ==
    LET ps == Split(text, Sep)
    IN  (/\ chunk_pc = "done"
         /\ Len(ps) = 2
         /\ ~WhitespaceOnly(ps[1]) /\ ~WhitespaceOnly(ps[2])
         /\ Len(ps[1]) > max_chars
         /\ Len(ps[2]) <= max_chars)
        => chunks = <<ps[1], ps[2]>>

\* C4 as stated: when the join of the non-blank paragraphs is at most max_chars
\* long, the result is the one chunk equal to that join.
C4_SingleChunkWhenJoinFits ==
    LET nb == NonBlankParagraphs(text)
    IN  (chunk_pc = "done" /\ nb # <<>> /\ Len(Join(nb, Sep)) <= max_chars)
        => chunks = <<Join(nb, Sep)>>

\* C4 as amended: when the join of the non-blank paragraphs plus one separator
\* (2 characters) is at most max_chars long, the result is the one chunk equal to
\* that join.
C4_SingleChunkWhenJoinPlusSepFits ==
    LET nb == NonBlankParagraphs(text)
    IN  (chunk_pc = "done" /\ nb # <<>> /\ Len(Join(nb, Sep)) + 2 <= max_chars)
        => chunks = <<Join(nb, Sep)>>

\* three paragraphs whose join plus one separator fills max_chars exactly
C4_Witness ==
    LET nb == NonBlankParagraphs(text)
    IN  /\ chunk_pc = "done"
        /\ Len(nb) = 3
        /\ Len(Join(nb, Sep)) + 2 = max_chars
        /\ chunks = <<Join(nb, Sep)>>

\* C9: an empty or whitespace-only text gives no chunks, whatever max_chars is.
C9_BlankTextNoChunks ==
    (chunk_pc = "done" /\ WhitespaceOnly(text)) => chunks = <<>>

\* a text of blank paragraphs and separators, chunked with max_chars below 1
C9_Witness ==
    /\ chunk_pc = "done"
    /\ text = <<SP, NL, NL, NL, SP>>
    /\ max_chars < 1
    /\ chunks = <<>>

---------------------------------------------------------------------------
(* Properties of the key-term post-processing, checked under SpecTerms *)

\* the leftmost position of a character of D in s, 0 when none
FindAny(s, D) ==
    LET hits == {k \in 1..Len(s) : s[k] \in D}
    IN  IF hits = {} THEN 0 ELSE CHOOSE k \in hits : \A j \in hits : k <= j

\* s cut at every character of D
RECURSIVE SplitAny(_, _)
SplitAny(s, D) ==
    LET k == FindAny(s, D)
    IN  IF k = 0 THEN <<s>>
        ELSE <<SubSeq(s, 1, k - 1)>> \o SplitAny(SubSeq(s, k + 1, Len(s)), D)

\* the trimmed, non-empty items of the trimmed response, in order
TrimmedItems(r) ==
    SelectSeq(StripEach(SplitAny(Strip(r), {COMMA, NL})), LAMBDA x : x # <<>>)

\* C8: the key terms are the trimmed response cut at commas and newlines, each
\* item trimmed, empty items dropped, order kept, at most the first 20; no item
\* is empty or untrimmed; "a, b,\nc" gives a, b, c.
C8_KeyTermPostProcessing ==
    terms_pc = "done" =>
        LET all == TrimmedItems(response)
        IN  /\ Len(key_terms) = IF Len(all) < 20 THEN Len(all) ELSE 20
            /\ \A k \in DOMAIN key_terms : key_terms[k] = all[k]
            /\ \A k \in DOMAIN key_terms :
                  /\ key_terms[k] # <<>>
                  /\ ~IsSpace(key_terms[k][1])
                  /\ ~IsSpace(key_terms[k][Len(key_terms[k])])
            /\ Len(key_terms) <= 20
            /\ response = ExampleResponse => key_terms = << <<"a">>, <<"b">>, <<"c">> >>

\* a padded response of more than 20 terms over both delimiters, cut to 20
C8_Witness ==
    /\ terms_pc = "done"
    /\ Len(TrimmedItems(response)) > 20
    /\ Len(key_terms) = 20
    /\ IsSpace(response[1])
    /\ \E k \in DOMAIN response : response[k] = NL /\ k > 2 /\ k < Len(response)
    /\ \E k \in DOMAIN response : response[k] = COMMA

---------------------------------------------------------------------------
(* Properties of the generation operations called directly, checked under SpecOps *)

\* C5: each generation operation uses the explicit key when one is given and the
\* environment value otherwise; with neither it attempts no model call and ends
\* by raising the configuration error.
C5_MissingKeyFailsBeforeAnyCall ==
    (op # "none" /\ openai_installed) =>
        /\ openai_api_key = PyOr(api_key, env_key)
        /\ (Falsy(api_key) /\ env_key = NoneVal) =>
              /\ TotalCalls = 0
              /\ op_pc \in {"raised", "returned"} =>
                    op_pc = "raised" /\ op_error = "no_api_key"

\* C6: once the model call for chunk k has failed, summarize_chunks has raised to
\* its caller, exactly k chunk calls were made (none after k, none repeated), the
\* combination call was not made and nothing was returned.
C6_ChunkFailureAborts ==
    /\ calls["chunk"] <= n_chunks
    /\ (op = "summarize_chunks" /\ failed["chunk"] > 0) =>
          /\ op_pc = "raised"
          /\ op_error = "model_call_failed"
          /\ failed["chunk"] = 1
          /\ calls["chunk"] = i + 1
          /\ summaries = i
          /\ calls["combine"] = 0

\* the second of three chunk calls failed: two calls in all
C6_Witness ==
    /\ op = "summarize_chunks"
    /\ n_chunks = 3
    /\ failed["chunk"] = 1
    /\ i = 1
    /\ TotalCalls = 2
    /\ op_pc = "raised"

---------------------------------------------------------------------------
(* Properties of main, checked under SpecMain *)

Outputs == {"summary", "key_terms", "quiz"}

C7_State ==
    \* each step starts only after the previous one succeeded
    /\ calls["combine"] > 0 => calls["chunk"] = n_chunks /\ failed["chunk"] = 0
    /\ calls["key_terms"] > 0 => "summary" \in rendered
    /\ calls["quiz"] > 0 => "key_terms" \in rendered
    /\ "key_terms" \in rendered => "summary" \in rendered
    /\ "quiz" \in rendered => "key_terms" \in rendered
    \* the export exists only if all three steps succeeded
    /\ download => Outputs \subseteq rendered /\ error = "none" /\ TotalFailed = 0
    \* a failed model call ends the run with a displayed error and no export
    /\ TotalFailed > 0 =>
          /\ TotalFailed = 1
          /\ error = "generate"
          /\ pc = "done"
          /\ ~download
    \* the failing step's output is missing, earlier outputs are there, later steps
    \* made no call
    /\ failed["chunk"] + failed["combine"] > 0 =>
          /\ rendered \cap Outputs = {}
          /\ calls["key_terms"] = 0 /\ calls["quiz"] = 0
    /\ failed["key_terms"] > 0 =>
          /\ rendered \cap Outputs = {"summary"}
          /\ calls["quiz"] = 0
    /\ failed["quiz"] > 0 =>
          /\ rendered \cap Outputs = {"summary", "key_terms"}

C7_Step ==
    requests' = requests =>
        /\ rendered \subseteq rendered'
        /\ error = "generate" => calls' = calls /\ ~download'

\* C7: in one request the steps run in the order summarize, key terms, quiz,
\* export, each after the previous succeeded; a failed model call stops every
\* later step, leaves the failing step's output and the download out, keeps what
\* was rendered before, and shows an error.
C7_PipelineAbortsOnFailure == []C7_State /\ [][C7_Step]_vars

\* the key-term call failed after a summary over two or more chunks was rendered
C7_Witness ==
    /\ failed["key_terms"] = 1
    /\ n_chunks >= 2
    /\ "summary" \in rendered
    /\ error = "generate"
    /\ pc = "done"

\* C10: main attempts a model call only after extraction succeeded and a
\* non-empty key was resolved; a failed extraction or a missing key ends the
\* request with a displayed error and no model call, and the script can be run
\* again.
C10_NoCallBeforeExtractionAndKey ==
    /\ TotalCalls > 0 =>
          /\ "extracted" \in rendered
          /\ ~Falsy(openai_api_key)
          /\ openai_api_key = PyOr(ui_api_key, env_key)
    /\ error = "extract" => TotalCalls = 0 /\ op = "none" /\ pc = "done"
    /\ (op # "none" /\ Falsy(PyOr(ui_api_key, env_key))) =>
          /\ op_error \in {"no_api_key", "openai_missing"}
          /\ error = "generate"
          /\ pc = "done"
          /\ TotalCalls = 0
    /\ (pc = "done" /\ requests < MaxRequests) => ENABLED Rerun

\* a second run that stopped on the missing key after a successful extraction
C10_Witness ==
    /\ requests = 2
    /\ "extracted" \in rendered
    /\ op_error = "no_api_key"
    /\ error = "generate"
    /\ pc = "done"
    /\ TotalCalls = 0

====
